---- MODULE Spec2Model ----
(***************************************************************************)
(* Transit light-curve fitting of notebooks/utils.py: find_nearest_idx,    *)
(* calculate_next_transit_time, fit_quadratic_baseline and transit_fit.    *)
(*                                                                         *)
(* Numbers are integers.  Times, periods and durations are whole days.     *)
(* Where the code halves or divides, the model compares scaled values:     *)
(* window boundaries are compared doubled (half_duration = duration / 2),  *)
(* and the t0 and period components of a parameter vector are held in      *)
(* 1/24 day (the bounds are period -/+ 1/24).  rp, u1 and u2 are held in   *)
(* hundredths.  Array indices are Python's (from 0), sequences are TLA+'s  *)
(* (from 1).  Values computed by numpy.polyfit, batman and scipy are kept  *)
(* symbolic: a record of what they were computed from.                     *)
(***************************************************************************)
EXTENDS Integers, Sequences, FiniteSets, TLC

VARIABLES inp, args, pc, loc, pred, out, events, lookup

vars == <<inp, args, pc, loc, pred, out, events, lookup>>

(* ------------------------------ bounds -------------------------------- *)

\* Largest extra gap inserted between two consecutive samples of a time array.
MaxGap == 2
\* Largest orbital period drawn.
MaxPeriod == 3
\* Largest transit duration drawn (besides one longer than the data).
MaxDuration == 3
\* Most evaluations of the model one optimizer run makes in the model.
MaxEvals == 2
\* Most iterations of the predictor's loop the model follows.
MaxIter == 6
\* Longest array and largest value handed to the index locator on its own.
MaxLen == 3
MaxVal == 3

(* ------------------------- program constants -------------------------- *)

\* len(time) < 10 is rejected.
MinPoints == 10
u1_guess == 40
u2_guess == 30

Calls == {1, 2}

(* ------------------------------ helpers ------------------------------- *)

Abs(x) == IF x < 0 THEN -x ELSE x

Range(s) == {s[i] : i \in 1..Len(s)}

StrictlyIncreasing(s) == \A i \in 1..(Len(s) - 1) : s[i] < s[i + 1]

\* Python's s[:k] and s[k:] for 0 <= k <= len(s).
Before(s, k) == SubSeq(s, 1, k)
From(s, k) == SubSeq(s, k + 1, Len(s))

RECURSIVE SumSeq(_)
SumSeq(s) == IF s = <<>> THEN 0 ELSE s[1] + SumSeq(Tail(s))

(* --------------------------- find_nearest_idx ------------------------- *)

\* numpy's argmin, a scan from the left keeping the first minimum; index from 0.
RECURSIVE ArgMinFrom(_, _, _)
ArgMinFrom(s, i, best) ==
    IF i > Len(s) THEN best
    ELSE ArgMinFrom(s, i + 1, IF s[i] < s[best] THEN i ELSE best)

RECURSIVE ArgMinLastFrom(_, _, _)
ArgMinLastFrom(s, i, best) ==
    IF i > Len(s) THEN best
    ELSE ArgMinLastFrom(s, i + 1, IF s[i] <= s[best] THEN i ELSE best)

\* A scan that keeps the last minimum instead of the first.
ArgMinLast(s) == ArgMinLastFrom(s, 2, 1) - 1

ArgMin(s) == ArgMinFrom(s, 2, 1) - 1

\* np.abs(array - value) for a 1-D array.
AbsDiff(array, value) == [i \in 1..Len(array) |-> Abs(array[i] - value)]

\* np.sum(np.abs(array - value), axis=-1) for a 2-D array and a row vector.
RowAbsDiff(array, value) ==
    [i \in 1..Len(array) |->
        SumSeq([j \in 1..Len(array[i]) |-> Abs(array[i][j] - value[j])])]

NoError == [type |-> "", msg |-> ""]

EmptyArgMin == [type |-> "ValueError",
                msg |-> "attempt to get argmin of an empty sequence"]

\* find_nearest_idx(array, value): ndim is 1 or 2.
find_nearest_idx(array, value, ndim) ==
    IF Len(array) = 0
    THEN [st |-> "raised", idx |-> -1, error |-> EmptyArgMin]
    ELSE [st |-> "returned",
          idx |-> IF ndim = 1 THEN ArgMin(AbsDiff(array, value))
                  ELSE ArgMin(RowAbsDiff(array, value)),
          error |-> NoError]

(* --------------------- calculate_next_transit_time -------------------- *)

IdleFrame == [st |-> "idle", reference_time |-> 0, period |-> 0,
              start_time |-> 0, transit_time |-> 0, iter |-> 0]

\* Entry: transit_time = reference_time.
EnterPredictor(reference_time, period, start_time) ==
    [st |-> "loop", reference_time |-> reference_time, period |-> period,
     start_time |-> start_time, transit_time |-> reference_time, iter |-> 0]

\* One iteration of: while transit_time < start_time: transit_time += period.
\* iter only counts the iterations followed; the code has no such limit.
PredictStep(c) ==
    /\ pred[c].st = "loop"
    /\ pred[c].transit_time < pred[c].start_time
    /\ pred[c].iter < MaxIter
    /\ pred' = [pred EXCEPT ![c].transit_time = @ + pred[c].period,
                            ![c].iter = @ + 1]
    /\ UNCHANGED <<inp, args, pc, loc, out, events, lookup>>

\* The loop condition is false: return transit_time.
PredictReturn(c) ==
    /\ pred[c].st = "loop"
    /\ ~(pred[c].transit_time < pred[c].start_time)
    /\ pred' = [pred EXCEPT ![c].st = "returned"]
    /\ UNCHANGED <<inp, args, pc, loc, out, events, lookup>>

(* ----------------------- fit_quadratic_baseline ----------------------- *)

Min(a, b) == IF a < b THEN a ELSE b

NoCoeffs == [n |-> 0, sx |-> 0, sx2 |-> 0, sx3 |-> 0, sx4 |-> 0,
             sy |-> 0, sxy |-> 0, sx2y |-> 0, rank |-> 0]

\* The least-squares quadratic through (x, y), held as the sums its normal
\* equations are made of and the rank of the fit (3 when three distinct x exist;
\* below that numpy warns of a poorly conditioned fit and still returns).
LeastSquares(x, y) ==
    [n    |-> Len(x),
     sx   |-> SumSeq(x),
     sx2  |-> SumSeq([i \in 1..Len(x) |-> x[i] * x[i]]),
     sx3  |-> SumSeq([i \in 1..Len(x) |-> x[i] * x[i] * x[i]]),
     sx4  |-> SumSeq([i \in 1..Len(x) |-> x[i] * x[i] * x[i] * x[i]]),
     sy   |-> SumSeq(y),
     sxy  |-> SumSeq([i \in 1..Len(x) |-> x[i] * y[i]]),
     sx2y |-> SumSeq([i \in 1..Len(x) |-> x[i] * x[i] * y[i]]),
     rank |-> Min(3, Cardinality(Range(x)))]

\* np.polyfit(x, y, deg=2): rejects an empty x and unequal lengths only.
Polyfit(x, y) ==
    IF Len(x) = 0
    THEN [error |-> [type |-> "TypeError", msg |-> "expected non-empty vector for x"],
          coeffs |-> NoCoeffs]
    ELSE IF Len(x) # Len(y)
    THEN [error |-> [type |-> "TypeError", msg |-> "expected x and y to have same length"],
          coeffs |-> NoCoeffs]
    ELSE [error |-> NoError, coeffs |-> LeastSquares(x, y)]

\* fit_quadratic_baseline(x, y): the closure quadratic_model holds coeffs.
fit_quadratic_baseline(x, y) ==
    LET r == Polyfit(x, y)
    IN  IF r.error # NoError
        THEN [st |-> "raised", error |-> r.error, coeffs |-> NoCoeffs]
        ELSE [st |-> "returned", error |-> NoError, coeffs |-> r.coeffs]

\* quadratic_model(x_val) = coeffs[0]*x_val**2 + coeffs[1]*x_val + coeffs[2].
quadratic_model(coeffs, x_val) == [coeffs |-> coeffs, x_val |-> x_val]

(* ----------------------------- transit_fit ---------------------------- *)

\* ValueError raised by the two input checks.
MismatchError == [type |-> "ValueError",
                  msg |-> "Time and flux arrays must have the same length"]
TooFewError == [type |-> "ValueError",
                msg |-> "Insufficient data points for fitting"]

\* The two checks in the other order.
ValidationErrorCountFirst(time, flux) ==
    IF Len(time) < MinPoints THEN TooFewError
    ELSE IF Len(time) # Len(flux) THEN MismatchError
    ELSE NoError

\* The input validation: the error raised, or NoError.
ValidationError(time, flux) ==
    IF Len(time) # Len(flux) THEN MismatchError
    ELSE IF Len(time) < MinPoints THEN TooFewError
    ELSE NoError

\* p0 = [t0_guess, period_known, a_guess, rp_guess, inc_guess, u1_guess, u2_guess]
InitialGuess(t0_guess, a) ==
    <<24 * t0_guess, 24 * a.period_known, a.a_guess, a.rp_guess, a.inc_guess,
      u1_guess, u2_guess>>

Doubled(time) == [i \in 1..Len(time) |-> 2 * time[i]]

\* The end of the window with the sign of the start.
WindowEnd2Before(t0_guess, duration_known) == 2 * t0_guess - 2 * duration_known

\* Twice t0_guess - half_duration and twice t0_guess + half_duration.
WindowStart2(t0_guess, duration_known) == 2 * t0_guess - duration_known
WindowEnd2(t0_guess, duration_known) == 2 * t0_guess + duration_known

\* np.argmin(np.abs(time - (t0_guess -/+ half_duration)))
StartIdx(time, t0_guess, duration_known) ==
    ArgMin(AbsDiff(Doubled(time), WindowStart2(t0_guess, duration_known)))
EndIdx(time, t0_guess, duration_known) ==
    ArgMin(AbsDiff(Doubled(time), WindowEnd2(t0_guess, duration_known)))

\* The second slice taken from endtime_idx + 1.
BaselineSliceAfterEnd(x, starttime_idx, endtime_idx) ==
    Before(x, starttime_idx) \o From(x, Min(endtime_idx + 1, Len(x)))

\* np.concatenate((x[:starttime_idx], x[endtime_idx:]))
BaselineSlice(x, starttime_idx, endtime_idx) ==
    Before(x, starttime_idx) \o From(x, endtime_idx)

\* The lower period bound with the sign of the upper one.
LowerBoundsPlus(time, period_known) ==
    <<24 * time[1], 24 * period_known + 1, 2, 1, 80, 0, 1>>

\* The bounds handed to curve_fit.
LowerBounds(time, period_known) ==
    <<24 * time[1], 24 * period_known - 1, 2, 1, 80, 0, 1>>
UpperBounds(time, period_known) ==
    <<24 * time[Len(time)], 24 * period_known + 1, 50, 20, 90, 100, 100>>

\* batman's light curve for params (ecc 0, w 90, quadratic limb darkening) at t.
light_curve(t, p) ==
    [t |-> t, t0 |-> p[1], per |-> p[2], a |-> p[3], rp |-> p[4], inc |-> p[5],
     ecc |-> 0, w |-> 90, limb_dark |-> "quadratic", u |-> <<p[6], p[7]>>]

\* transit_model(t, *p): transit_curve * baseline_model(t), the baseline being
\* the closure's coefficients.
transit_model(coeffs, t, p) ==
    [transit_curve |-> light_curve(t, p), baseline |-> quadratic_model(coeffs, t)]

NoOutput == [transit_curve |-> <<>>, baseline |-> <<>>]
NoEval == [params |-> <<>>, output |-> NoOutput]

NoResult == [popt |-> <<>>, perr |-> <<>>, pcov |-> "", best_fit |-> NoOutput]

NoLoc == [t0_guess |-> 0, p0 |-> <<>>, starttime_idx |-> -1, endtime_idx |-> -1,
          baseline_time |-> <<>>, baseline_flux |-> <<>>,
          coeffs |-> NoCoeffs, nfit |-> 0, bounds |-> <<>>,
          neval |-> 0, evals |-> {}, last |-> NoEval,
          exc |-> NoError, popt |-> <<>>, pcov |-> "", best_fit |-> NoOutput]

NoArgs == [duration_known |-> 0, period_known |-> 0, transittime |-> 0,
           a_guess |-> 0, rp_guess |-> 0, inc_guess |-> 0]

NoOut == [kind |-> "none", error |-> NoError, result |-> NoResult]

\* A call of transit_model from frame l with parameters p, whose baseline was
\* refitted to the evaluated times on the way.
CallModelRefit(l, t, p) ==
    LET cf == LeastSquares(t, t)
        e == [params |-> p, output |-> transit_model(cf, t, p)]
    IN  [l EXCEPT !.coeffs = cf, !.neval = @ + 1, !.last = e,
                  !.evals = @ \cup {e}]

\* A call of transit_model from frame l with parameters p: the frame after it.
CallModel(l, t, p) ==
    LET e == [params |-> p, output |-> transit_model(l.coeffs, t, p)]
    IN  [l EXCEPT !.neval = @ + 1, !.last = e, !.evals = @ \cup {e}]

\* Lines 136-140: the two checks; the other arguments are first read after them.
FitValidate(c, Args) ==
    /\ pc[c] = "validate"
    /\ LET err == ValidationError(inp[c].time, inp[c].flux)
       IN  IF err # NoError
           THEN /\ out' = [out EXCEPT ![c] = [kind |-> "raised", error |-> err,
                                             result |-> NoResult]]
                /\ pc' = [pc EXCEPT ![c] = "raised"]
                /\ UNCHANGED args
           ELSE /\ \E a \in Args : args' = [args EXCEPT ![c] = a]
                /\ pc' = [pc EXCEPT ![c] = "predict"]
                /\ UNCHANGED out
    /\ UNCHANGED <<inp, loc, pred, events, lookup>>

\* Line 143: the call of calculate_next_transit_time.
FitCallPredictor(c) ==
    /\ pc[c] = "predict"
    /\ pred' = [pred EXCEPT ![c] = EnterPredictor(args[c].transittime,
                                                  args[c].period_known,
                                                  inp[c].time[1])]
    /\ pc' = [pc EXCEPT ![c] = "predicting"]
    /\ events' = [events EXCEPT ![c] = Append(@, "predict")]
    /\ UNCHANGED <<inp, args, loc, out, lookup>>

\* Lines 143-171: t0_guess, p0, the boundary indices and the baseline samples.
FitPrepare(c) ==
    /\ pc[c] = "predicting"
    /\ pred[c].st = "returned"
    /\ LET t0 == pred[c].transit_time
           s == StartIdx(inp[c].time, t0, args[c].duration_known)
           e == EndIdx(inp[c].time, t0, args[c].duration_known)
       IN  loc' = [loc EXCEPT ![c] =
                     [@ EXCEPT !.t0_guess = t0,
                               !.p0 = InitialGuess(t0, args[c]),
                               !.starttime_idx = s,
                               !.endtime_idx = e,
                               !.baseline_time = BaselineSlice(inp[c].time, s, e),
                               !.baseline_flux = BaselineSlice(inp[c].flux, s, e)]]
    /\ pc' = [pc EXCEPT ![c] = "baseline"]
    /\ UNCHANGED <<inp, args, pred, out, events, lookup>>

\* Line 173: the baseline fit.  An error of polyfit is raised outside the try.
FitBaseline(c) ==
    /\ pc[c] = "baseline"
    /\ LET r == fit_quadratic_baseline(loc[c].baseline_time, loc[c].baseline_flux)
       IN  IF r.st = "raised"
           THEN /\ out' = [out EXCEPT ![c] = [kind |-> "raised", error |-> r.error,
                                             result |-> NoResult]]
                /\ pc' = [pc EXCEPT ![c] = "raised"]
                /\ UNCHANGED loc
           ELSE /\ loc' = [loc EXCEPT ![c].coeffs = r.coeffs, ![c].nfit = @ + 1]
                /\ pc' = [pc EXCEPT ![c] = "bounds"]
                /\ UNCHANGED out
    /\ events' = [events EXCEPT ![c] = Append(@, "baseline_fit")]
    /\ UNCHANGED <<inp, args, pred, lookup>>

\* Lines 231-234.
FitBounds(c) ==
    /\ pc[c] = "bounds"
    /\ loc' = [loc EXCEPT ![c].bounds =
                 <<LowerBounds(inp[c].time, args[c].period_known),
                   UpperBounds(inp[c].time, args[c].period_known)>>]
    /\ pc' = [pc EXCEPT ![c] = "curve_fit"]
    /\ UNCHANGED <<inp, args, pred, out, events, lookup>>

InBounds(x, lb, ub) == \A i \in 1..Len(x) : lb[i] <= x[i] /\ x[i] <= ub[i]

\* The checks curve_fit makes of bounds and p0 before it evaluates the model.
CurveFitRejects(p0, bounds) ==
    IF \E i \in 1..Len(p0) : bounds[1][i] >= bounds[2][i]
    THEN [type |-> "ValueError",
          msg |-> "Each lower bound must be strictly less than each upper bound."]
    ELSE IF ~InBounds(p0, bounds[1], bounds[2])
    THEN [type |-> "ValueError", msg |-> "x0 is infeasible."]
    ELSE NoError

\* Lines 236-245: entering the try and calling curve_fit.
FitCurveFit(c) ==
    /\ pc[c] = "curve_fit"
    /\ LET err == CurveFitRejects(loc[c].p0, loc[c].bounds)
       IN  IF err # NoError
           THEN /\ loc' = [loc EXCEPT ![c].exc = err]
                /\ pc' = [pc EXCEPT ![c] = "except"]
           ELSE /\ pc' = [pc EXCEPT ![c] = "optimizing"]
                /\ UNCHANGED loc
    /\ events' = [events EXCEPT ![c] = Append(@, "curve_fit")]
    /\ UNCHANGED <<inp, args, pred, out, lookup>>

\* The optimizer evaluates the model: first at p0, then at points of the box.
OptEvaluate(c) ==
    /\ pc[c] = "optimizing"
    /\ loc[c].neval < MaxEvals
    /\ \E p \in (IF loc[c].neval = 0 THEN {loc[c].p0}
                 ELSE {loc[c].bounds[1], loc[c].bounds[2]}) :
           loc' = [loc EXCEPT ![c] = CallModel(@, inp[c].time, p)]
    /\ events' = [events EXCEPT ![c] = Append(@, "eval")]
    /\ UNCHANGED <<inp, args, pc, pred, out, lookup>>

\* curve_fit returns popt, the last point evaluated, and pcov.
OptConverge(c) ==
    /\ pc[c] = "optimizing"
    /\ loc[c].neval >= 1
    /\ loc' = [loc EXCEPT ![c].popt = loc[c].last.params,
                          ![c].pcov = "full_rank"]
    /\ pc' = [pc EXCEPT ![c] = "fitted"]
    /\ UNCHANGED <<inp, args, pred, out, events, lookup>>

\* The Jacobian at the point reached is singular: curve_fit raises nothing.  It
\* returns popt and a covariance it could not estimate (built from the singular
\* values left, or filled with inf under an OptimizeWarning).
OptSingular(c) ==
    /\ pc[c] = "optimizing"
    /\ loc[c].neval >= 1
    /\ loc' = [loc EXCEPT ![c].popt = loc[c].last.params,
                          ![c].pcov = "rank_deficient"]
    /\ pc' = [pc EXCEPT ![c] = "fitted"]
    /\ UNCHANGED <<inp, args, pred, out, events, lookup>>

BudgetError == [type |-> "RuntimeError",
                msg |-> "Optimal parameters not found: The maximum number of function evaluations is exceeded."]

\* curve_fit gives up: the budget of maxfev = 5000 evaluations is spent.  The
\* model follows at most MaxEvals evaluations, so the budget can be found spent
\* after any of them.
OptExhaust(c) ==
    /\ pc[c] = "optimizing"
    /\ loc[c].neval >= 1
    /\ loc' = [loc EXCEPT ![c].exc = BudgetError]
    /\ pc' = [pc EXCEPT ![c] = "except"]
    /\ UNCHANGED <<inp, args, pred, out, events, lookup>>

\* Lines 247-255: perr, best_fit = transit_model(time, *popt), residuals, rms.
FitBestFit(c) ==
    /\ pc[c] = "fitted"
    /\ LET l == CallModel(loc[c], inp[c].time, loc[c].popt)
       IN  loc' = [loc EXCEPT ![c] = [l EXCEPT !.best_fit = l.last.output]]
    /\ pc' = [pc EXCEPT ![c] = "report"]
    /\ events' = [events EXCEPT ![c] = Append(@, "eval")]
    /\ UNCHANGED <<inp, args, pred, out, lookup>>

\* Lines 257-285: the printed report.
FitReport(c) ==
    /\ pc[c] = "report"
    /\ pc' = [pc EXCEPT ![c] = "plot"]
    /\ events' = [events EXCEPT ![c] = Append(@, "report")]
    /\ UNCHANGED <<inp, args, loc, pred, out, lookup>>

\* Lines 288-335, plot_results true: the plot evaluates transit_model(time, *p0).
FitPlot(c) ==
    /\ pc[c] = "plot"
    /\ loc' = [loc EXCEPT ![c] = CallModel(@, inp[c].time, loc[c].p0)]
    /\ pc' = [pc EXCEPT ![c] = "return"]
    /\ events' = [events EXCEPT ![c] = Append(Append(@, "eval"), "plot")]
    /\ UNCHANGED <<inp, args, pred, out, lookup>>

\* Line 288, plot_results false.
FitSkipPlot(c) ==
    /\ pc[c] = "plot"
    /\ pc' = [pc EXCEPT ![c] = "return"]
    /\ UNCHANGED <<inp, args, loc, pred, out, events, lookup>>

\* Lines 337-348: return popt, perr, results.
FitReturn(c) ==
    /\ pc[c] = "return"
    /\ out' = [out EXCEPT ![c] =
                 [kind |-> "returned", error |-> NoError,
                  result |-> [popt |-> loc[c].popt,
                              perr |-> <<"sqrt(diag(pcov))", loc[c].pcov, loc[c].popt>>,
                              pcov |-> loc[c].pcov,
                              best_fit |-> loc[c].best_fit]]]
    /\ pc' = [pc EXCEPT ![c] = "returned"]
    /\ UNCHANGED <<inp, args, loc, pred, events, lookup>>

\* Lines 350-353: print "Fitting failed: ..." and the hint, then raise.
FitExcept(c) ==
    /\ pc[c] = "except"
    /\ events' = [events EXCEPT ![c] = Append(@, "print_failed")]
    /\ out' = [out EXCEPT ![c] = [kind |-> "raised", error |-> loc[c].exc,
                                  result |-> NoResult]]
    /\ pc' = [pc EXCEPT ![c] = "raised"]
    /\ UNCHANGED <<inp, args, loc, pred, lookup>>

FitStep(c, Args) ==
    \/ FitValidate(c, Args)
    \/ FitCallPredictor(c)
    \/ PredictStep(c)
    \/ PredictReturn(c)
    \/ FitPrepare(c)
    \/ FitBaseline(c)
    \/ FitBounds(c)
    \/ FitCurveFit(c)
    \/ OptEvaluate(c)
    \/ OptConverge(c)
    \/ OptSingular(c)
    \/ OptExhaust(c)
    \/ FitBestFit(c)
    \/ FitReport(c)
    \/ FitPlot(c)
    \/ FitSkipPlot(c)
    \/ FitReturn(c)
    \/ FitExcept(c)

(* ------------------------------- inputs ------------------------------- *)

\* A value above every sample time drawn.
MaxTime == 2 + MinPoints + MaxGap

Starts == {1}

\* Strictly increasing times: daily samples from s with one gap widened by e.
TimeArrays(n) ==
    {[i \in 1..n |-> s + (i - 1) + (IF i > g THEN e ELSE 0)] :
        s \in Starts, g \in 1..(n - 1), e \in 0..MaxGap}

FluxArray(m) == [i \in 1..m |-> 1000 - i]

Lengths == {MinPoints - 1, MinPoints}

Durations == (0..MaxDuration) \cup {2 * MaxTime}
Periods == (-1..MaxPeriod) \cup {MaxTime}
RefTimes == (-3)..(MaxTime + 1)

FullArgs == [duration_known : Durations, period_known : Periods,
             transittime : RefTimes, a_guess : {1, 10}, rp_guess : {10},
             inc_guess : {89}]

NoLookup == [array |-> <<>>, value |-> 0, ndim |-> 1, st |-> "idle",
             idx |-> -1, error |-> NoError]

Unused == [time |-> <<>>, flux |-> <<>>]

\* One call of transit_fit.
Init ==
    /\ \E n \in Lengths : \E t \in TimeArrays(n) : \E m \in {n - 1, n} :
          inp = [c \in Calls |-> IF c = 1 THEN [time |-> t, flux |-> FluxArray(m)]
                                 ELSE Unused]
    /\ args = [c \in Calls |-> NoArgs]
    /\ pc = [c \in Calls |-> IF c = 1 THEN "validate" ELSE "unused"]
    /\ loc = [c \in Calls |-> NoLoc]
    /\ pred = [c \in Calls |-> IdleFrame]
    /\ out = [c \in Calls |-> NoOut]
    /\ events = [c \in Calls |-> <<>>]
    /\ lookup = NoLookup

Next == \E c \in Calls : FitStep(c, FullArgs)

Spec == Init /\ [][Next]_vars

(* Two calls of transit_fit, their steps interleaved. *)

CallArrays == {[i \in 1..MinPoints |-> i - 1],
               [i \in 1..MinPoints |-> 2 + (i - 1) + (IF i > 4 THEN MaxGap ELSE 0)]}

CallArgs == [duration_known : {2}, period_known : {3}, transittime : {-1, 4},
             a_guess : {10}, rp_guess : {10}, inc_guess : {89}]

InitCalls ==
    /\ \E ts \in [Calls -> CallArrays] :
          inp = [c \in Calls |-> [time |-> ts[c], flux |-> FluxArray(Len(ts[c]))]]
    /\ args = [c \in Calls |-> NoArgs]
    /\ pc = [c \in Calls |-> "validate"]
    /\ loc = [c \in Calls |-> NoLoc]
    /\ pred = [c \in Calls |-> IdleFrame]
    /\ out = [c \in Calls |-> NoOut]
    /\ events = [c \in Calls |-> <<>>]
    /\ lookup = NoLookup

NextCalls == \E c \in Calls : FitStep(c, CallArgs)

SpecCalls == InitCalls /\ [][NextCalls]_vars

(* calculate_next_transit_time on its own. *)

StartTimes == (-1)..3

InitPredict ==
    /\ \E r \in RefTimes : \E p \in Periods : \E s \in StartTimes :
          pred = [c \in Calls |-> IF c = 1 THEN EnterPredictor(r, p, s) ELSE IdleFrame]
    /\ inp = [c \in Calls |-> Unused]
    /\ args = [c \in Calls |-> NoArgs]
    /\ pc = [c \in Calls |-> "unused"]
    /\ loc = [c \in Calls |-> NoLoc]
    /\ out = [c \in Calls |-> NoOut]
    /\ events = [c \in Calls |-> <<>>]
    /\ lookup = NoLookup

NextPredict == PredictStep(1) \/ PredictReturn(1)

SpecPredict == InitPredict /\ [][NextPredict]_vars

(* find_nearest_idx on its own. *)

Arrays1D == UNION {[1..n -> 0..MaxVal] : n \in 0..MaxLen}
Rows == [1..2 -> 0..1]
Arrays2D == UNION {[1..n -> Rows] : n \in 1..2}

\* The call find_nearest_idx(array, value).
Locate ==
    /\ lookup.st = "idle"
    /\ LET r == find_nearest_idx(lookup.array, lookup.value, lookup.ndim)
       IN  lookup' = [lookup EXCEPT !.st = r.st, !.idx = r.idx, !.error = r.error]
    /\ UNCHANGED <<inp, args, pc, loc, pred, out, events>>

InitIdx ==
    /\ \/ \E a \in Arrays1D : \E v \in (-1)..(MaxVal + 1) :
             lookup = [NoLookup EXCEPT !.array = a, !.value = v, !.ndim = 1]
       \/ \E a \in Arrays2D : \E v \in Rows :
             lookup = [NoLookup EXCEPT !.array = a, !.value = v, !.ndim = 2]
    /\ inp = [c \in Calls |-> Unused]
    /\ args = [c \in Calls |-> NoArgs]
    /\ pc = [c \in Calls |-> "unused"]
    /\ loc = [c \in Calls |-> NoLoc]
    /\ pred = [c \in Calls |-> IdleFrame]
    /\ out = [c \in Calls |-> NoOut]
    /\ events = [c \in Calls |-> <<>>]

NextIdx == Locate

SpecIdx == InitIdx /\ [][NextIdx]_vars

(* ------------------------------- claims ------------------------------- *)

\* C1: for period > 0 the predictor returns r with start_time <= r,
\* r < start_time + period and r - reference_time a multiple of period.
C1_NextTransitAtOrAfterStart ==
    \A c \in Calls :
        (pred[c].st = "returned" /\ pred[c].period > 0) =>
            /\ pred[c].transit_time >= pred[c].start_time
            /\ pred[c].transit_time < pred[c].start_time + pred[c].period
            /\ (pred[c].transit_time - pred[c].reference_time) % pred[c].period = 0

\* C2: with period <= 0 the predictor never returns a transit time.
C2_NonPositivePeriodNeverReturns ==
    \A c \in Calls : pred[c].period <= 0 => pred[c].st # "returned"

Invalid(c) ==
    Len(inp[c].time) # Len(inp[c].flux) \/ Len(inp[c].time) < MinPoints

\* C3: a call with mismatched lengths or fewer than 10 points has raised as soon
\* as it has taken a step, nothing else has run (no prediction, baseline fit,
\* optimizer call, report or plot), and the error of mismatched lengths differs
\* from the error of too few points.
C3_ValidationRaisesFirst ==
    \A c \in Calls :
        (Invalid(c) /\ pc[c] \notin {"unused", "validate"}) =>
            /\ pc[c] = "raised"
            /\ out[c].kind = "raised"
            /\ out[c].result = NoResult
            /\ out[c].error.type = "ValueError"
            /\ events[c] = <<>>
            /\ loc[c] = NoLoc
            /\ pred[c] = IdleFrame
            /\ args[c] = NoArgs
            /\ Len(inp[c].time) # Len(inp[c].flux) => out[c].error = MismatchError
            /\ Len(inp[c].time) = Len(inp[c].flux) => out[c].error = TooFewError
            /\ MismatchError.msg # TooFewError.msg

C3_Witness ==
    /\ pc[1] = "raised"
    /\ Len(inp[1].time) >= MinPoints
    /\ Len(inp[1].time) # Len(inp[1].flux)
    /\ out[1].error = MismatchError

\* The optimizer failed in a call: curve_fit raised (infeasible bounds or
\* initial guess, evaluation budget spent) or met a singular Jacobian.
OptimizerFailed(c) == loc[c].exc # NoError \/ loc[c].pcov = "rank_deficient"

\* C4: once the optimizer has failed in a call (of a positive known period), the
\* call never returns a result;
\* when it ends it has logged the failure and raised the error.
C4_OptimizerFailureRaises ==
    \A c \in Calls :
        (OptimizerFailed(c) /\ args[c].period_known > 0) =>
            /\ pc[c] # "returned"
            /\ out[c].kind # "returned"
            /\ out[c].result = NoResult
            /\ pc[c] = "raised" =>
                  /\ out[c].kind = "raised"
                  /\ events[c][Len(events[c])] = "print_failed"

\* The indices i of 0..n-1 with i < s or i >= e, in increasing order.
RECURSIVE Kept(_, _, _, _)
Kept(i, n, s, e) ==
    IF i >= n THEN <<>>
    ELSE (IF i < s \/ i >= e THEN <<i>> ELSE <<>>) \o Kept(i + 1, n, s, e)

Nearest(time2, v2, i) ==
    \A j \in 1..Len(time2) : Abs(time2[i + 1] - v2) <= Abs(time2[j] - v2)

Prepared(c) == loc[c].starttime_idx >= 0

\* C5: start and end are indices of samples nearest to t0_guess -/+ duration/2,
\* and the baseline samples are those of the indices i < start followed by those
\* of i >= end, the same indices for time and flux: no index of [start, end) is
\* among them and every other index is there once.
C5_BaselineSamples ==
    \A c \in Calls :
        Prepared(c) =>
            LET time == inp[c].time
                flux == inp[c].flux
                s == loc[c].starttime_idx
                e == loc[c].endtime_idx
                k == Kept(0, Len(time), s, e)
                bt == loc[c].baseline_time
                bf == loc[c].baseline_flux
            IN  /\ Nearest(Doubled(time),
                           2 * loc[c].t0_guess - args[c].duration_known, s)
                /\ Nearest(Doubled(time),
                           2 * loc[c].t0_guess + args[c].duration_known, e)
                /\ Len(bt) = Len(k) /\ Len(bf) = Len(k)
                /\ \A j \in 1..Len(k) :
                      bt[j] = time[k[j] + 1] /\ bf[j] = flux[k[j] + 1]
                /\ \A i \in 0..(Len(time) - 1) :
                      Cardinality({j \in 1..Len(bt) : bt[j] = time[i + 1]})
                          = (IF s <= i /\ i < e THEN 0 ELSE 1)

C5_Witness ==
    /\ Prepared(1)
    /\ 1 <= loc[1].starttime_idx
    /\ loc[1].starttime_idx + 2 <= loc[1].endtime_idx
    /\ loc[1].endtime_idx < Len(inp[1].time) - 1
    /\ loc[1].nfit = 1

\* C6: a call whose window leaves fewer than 3 distinct baseline times does not
\* get past the baseline fit: it raises there.
C6_TooFewBaselineSamplesRaise ==
    \A c \in Calls :
        (Prepared(c) /\ pc[c] # "baseline"
            /\ Cardinality(Range(loc[c].baseline_time)) < 3) =>
            /\ pc[c] = "raised"
            /\ loc[c].nfit = 0

\* C7: for a non-empty 1-D array the index returned is of an element nearest to
\* the value, and the smallest such index.
C7_NearestFirstIndex ==
    (lookup.st # "idle" /\ lookup.ndim = 1 /\ Len(lookup.array) > 0) =>
        /\ lookup.st = "returned"
        /\ lookup.idx \in 0..(Len(lookup.array) - 1)
        /\ \A j \in 1..Len(lookup.array) :
              Abs(lookup.array[lookup.idx + 1] - lookup.value)
                  <= Abs(lookup.array[j] - lookup.value)
        /\ \A j \in 1..lookup.idx :
              Abs(lookup.array[lookup.idx + 1] - lookup.value)
                  < Abs(lookup.array[j] - lookup.value)

C7_Witness ==
    /\ lookup.st = "returned"
    /\ lookup.ndim = 1
    /\ lookup.idx >= 1
    /\ \E j \in (lookup.idx + 2)..Len(lookup.array) :
          Abs(lookup.array[j] - lookup.value)
              = Abs(lookup.array[lookup.idx + 1] - lookup.value)

\* The position of the first event named e in a call's events, 0 when absent.
RECURSIVE FirstAt(_, _, _)
FirstAt(ev, e, i) ==
    IF i > Len(ev) THEN 0 ELSE IF ev[i] = e THEN i ELSE FirstAt(ev, e, i + 1)

C8_State ==
    \A c \in Calls :
        /\ loc[c].nfit <= 1
        /\ Cardinality({i \in 1..Len(events[c]) : events[c][i] = "baseline_fit"})
              = loc[c].nfit
        /\ loc[c].neval >= 1 =>
              /\ loc[c].nfit = 1
              /\ FirstAt(events[c], "baseline_fit", 1)
                    < FirstAt(events[c], "eval", 1)
        /\ loc[c].nfit = 1 =>
              loc[c].coeffs = LeastSquares(loc[c].baseline_time, loc[c].baseline_flux)
        /\ \A e \in loc[c].evals :
              /\ e.output.baseline = quadratic_model(loc[c].coeffs, inp[c].time)
              /\ \A f \in loc[c].evals : e.params = f.params => e.output = f.output

C8_Step ==
    \A c \in Calls :
        /\ loc[c].nfit = 1 =>
              loc'[c].nfit = 1 /\ loc'[c].coeffs = loc[c].coeffs
        /\ loc'[c].coeffs # loc[c].coeffs =>
              /\ pc[c] = "baseline" /\ pc'[c] = "bounds"
              /\ \A d \in Calls \ {c} : loc'[d] = loc[d] /\ pc'[d] = pc[d]
        /\ loc'[c].evals \subseteq loc[c].evals \cup {loc'[c].last}
        /\ loc'[c].neval > loc[c].neval =>
              loc'[c].last.output
                  = transit_model(loc[c].coeffs, inp[c].time, loc'[c].last.params)

\* C8: in a call the baseline is fitted once, before the first evaluation of the
\* model, from that call's own baseline samples; no later step (an evaluation by
\* the optimizer, the best-fit evaluation, the plot's evaluation, any step of the
\* other call) changes its coefficients; every evaluation uses them, and two
\* evaluations with the same parameters give the same output.
C8_BaselineFittedOnce == [](C8_State) /\ [][C8_Step]_vars

C8_Witness ==
    /\ pc[1] = "returned" /\ pc[2] = "returned"
    /\ loc[1].coeffs # loc[2].coeffs
    /\ events[1][Len(events[1])] = "plot"
    /\ loc[1].neval = MaxEvals + 2
    /\ loc[1].popt # loc[1].p0
    /\ Cardinality(loc[1].evals) < loc[1].neval
    /\ loc[2].neval >= 2

GuessFitted == {1, 2, 6, 7}

Bounded(c) == loc[c].bounds # <<>>

\* C9 as stated: for known_period > 0 the t0, period, u1 and u2 components of
\* the initial guess lie within the bounds handed to the optimizer.
C9_GuessWithinBounds ==
    \A c \in Calls :
        (Bounded(c) /\ args[c].period_known > 0) =>
            \A i \in GuessFitted :
                /\ loc[c].bounds[1][i] <= loc[c].p0[i]
                /\ loc[c].p0[i] <= loc[c].bounds[2][i]

\* C9 amended: for known_period > 0 every one of the four components is at or
\* above its lower bound, the period, u1 (0.4) and u2 (0.3) components are at or
\* below their upper bounds, and t0_guess <= time[-1] exactly when some
\* transittime + k * period_known with k >= 0 lies in [time[0], time[-1]].
C9_GuessWithinBoundsButT0Upper ==
    \A c \in Calls :
        (Bounded(c) /\ args[c].period_known > 0) =>
            LET time == inp[c].time
                lb == loc[c].bounds[1]
                ub == loc[c].bounds[2]
                p0 == loc[c].p0
            IN  /\ \A i \in GuessFitted : lb[i] <= p0[i]
                /\ \A i \in GuessFitted \ {1} : p0[i] <= ub[i]
                /\ p0[1] = 24 * loc[c].t0_guess
                /\ lb[1] = 24 * time[1] /\ ub[1] = 24 * time[Len(time)]
                /\ p0[2] = 24 * args[c].period_known
                /\ lb[2] = p0[2] - 1 /\ ub[2] = p0[2] + 1
                /\ <<lb[6], p0[6], ub[6]>> = <<0, 40, 100>>
                /\ <<lb[7], p0[7], ub[7]>> = <<1, 30, 100>>
                /\ (p0[1] <= ub[1]) <=>
                      \E k \in 0..MaxIter :
                          LET t == args[c].transittime + k * args[c].period_known
                          IN  time[1] <= t /\ t <= time[Len(time)]

C9_Witness ==
    /\ Bounded(1)
    /\ args[1].period_known > 0
    /\ args[1].transittime < inp[1].time[1]
    /\ loc[1].p0[1] > loc[1].bounds[2][1]
    /\ pc[1] = "raised"

\* C10: the boundary indices satisfy start <= end, so the baseline times have
\* the length n - (end - start), no sample twice, and stay in increasing order.
C10_StartNotAfterEnd ==
    \A c \in Calls :
        Prepared(c) =>
            /\ StrictlyIncreasing(inp[c].time) /\ args[c].duration_known >= 0
            /\ loc[c].starttime_idx <= loc[c].endtime_idx
            /\ Len(loc[c].baseline_time)
                  = Len(inp[c].time) - (loc[c].endtime_idx - loc[c].starttime_idx)
            /\ StrictlyIncreasing(loc[c].baseline_time)
            /\ Range(loc[c].baseline_time) \subseteq Range(inp[c].time)

C10_Witness ==
    /\ Prepared(1)
    /\ args[1].duration_known > 0
    /\ loc[1].starttime_idx = loc[1].endtime_idx
    /\ loc[1].starttime_idx > 0
    /\ loc[1].t0_guess < inp[1].time[Len(inp[1].time)]

====
